---- MODULE Spec2Model ----
(***************************************************************************)
(* Two independent programs of examples/bluepill_demo:                     *)
(*   - blinky_main.cpp: the Blink Loop (SpecBlink);                        *)
(*   - TESTS/base/demo/main.cpp: the greentea/utest Test Shim (SpecShim).  *)
(* The utest harness and the greentea client are libraries the shim calls; *)
(* their steps are modelled from the lifecycle the specification gives.    *)
(***************************************************************************)
EXTENDS Integers, Sequences, FiniteSets, TLC

VARIABLES
    \* ---- Blink Loop: program state
    pc,          \* position of main() in blinky_main.cpp
    led,         \* level of the output pin (DigitalOut led)
    i,           \* inner loop variable
    counter,     \* int counter
    \* ---- Blink Loop: what an observer of the pin and of the console has seen
    start0,      \* outer cycles the program had completed in the initial state
    out,         \* counter values printed since the initial state, in order
    toggles,     \* pin toggles since the initial state
    sinceMark,   \* pin toggles since the last line printed
    \* ---- Test Shim: program state
    m_pc,        \* index of main()'s current statement in main_body, 0 = left main
    handshake,   \* "none", "ok" or "failed": state of GREENTEA_SETUP
    observed,    \* per case, the actual operand its assertion is given
    phase,       \* harness lifecycle state
    case_index,  \* index of the current case, 1-based
    case_failed, \* whether the current case's body failed
    aborting,    \* whether a failure handler asked to abort the suite
    test_passed, \* aggregate passed count
    test_failed, \* aggregate failed count
    exit_status, \* value main() returned, -1 while it has not returned
    \* ---- Test Shim: what an observer has seen
    log,         \* callbacks executed on the device, in order
    host         \* messages handed to the host-reporting layer, in order

bvars == <<pc, led, i, counter, start0, out, toggles, sinceMark>>
svars == <<m_pc, handshake, observed, phase, case_index, case_failed, aborting,
           test_passed, test_failed, exit_status, log, host>>
vars == <<bvars, svars>>

(***************************************************************************)
(* Bounds of the model.                                                    *)
(***************************************************************************)
\* outer cycles of the Blink Loop explored from an initial state
MaxCycles == 4
\* largest value an assertion's actual operand is drawn from
MaxVal == 2

(***************************************************************************)
(*                              Blink Loop                                 *)
(***************************************************************************)
INT_MAX == 2147483647
INT_MIN == (-2147483647) - 1

minor_blink_number == 4 * 2

\* DigitalOut led(PROJECT_LED, 1)
LedInit == 1

\* led = !led
Toggle(l) == IF l = 0 THEN 1 ELSE 0

\* i < minor_blink_number
ForCondLe(k) == k <= minor_blink_number
ForCond(k) == k < minor_blink_number

\* counter++ on an int: signed overflow at INT_MAX is undefined behaviour, so
\* the outcome there is any of the values a build may leave in the variable
\* (the two's complement wrap, or some other value).
Increment(c) == IF c < INT_MAX THEN {c + 1} ELSE {INT_MIN, -1, 0, INT_MAX}

\* The program after construction, and the program after INT_MAX - 1 outer
\* cycles (at the top of the outer loop), a state the unbounded loop reaches.
StartCycles == {0, INT_MAX - 1}

ShimIdle ==
    /\ m_pc = 0
    /\ handshake = "none"
    /\ observed = <<>>
    /\ phase = "NotStarted"
    /\ case_index = 0
    /\ case_failed = FALSE
    /\ aborting = FALSE
    /\ test_passed = 0
    /\ test_failed = 0
    /\ exit_status = -1
    /\ log = <<>>
    /\ host = <<>>

InitBlink ==
    /\ start0 \in StartCycles
    /\ pc = IF start0 = 0 THEN "start" ELSE "while"
    /\ led = LedInit
    /\ i = 0
    /\ counter = start0
    /\ out = <<>>
    /\ toggles = 0
    /\ sinceMark = 0
    /\ ShimIdle

\* printf("<start>\n")
PrintStart ==
    /\ pc = "start"
    /\ pc' = "while"
    /\ sinceMark' = 0
    /\ UNCHANGED <<led, i, counter, start0, out, toggles, svars>>

\* while (true) { for (int i = 0; ...
WhileTop ==
    /\ pc = "while"
    /\ Len(out) < MaxCycles
    /\ i' = 0
    /\ pc' = "for"
    /\ UNCHANGED <<led, counter, start0, out, toggles, sinceMark, svars>>

\* the test of the for loop
ForTest ==
    /\ pc = "for"
    /\ pc' = IF ForCond(i) THEN "toggle" ELSE "print"
    /\ UNCHANGED <<led, i, counter, start0, out, toggles, sinceMark, svars>>

\* led = !led; the observer counts a toggle when the level changes
LedToggle ==
    /\ pc = "toggle"
    /\ led' = Toggle(led)
    /\ toggles' = toggles + (IF led' = led THEN 0 ELSE 1)
    /\ sinceMark' = sinceMark + (IF led' = led THEN 0 ELSE 1)
    /\ pc' = "sleep_minor"
    /\ UNCHANGED <<i, counter, start0, out, svars>>

\* ThisThread::sleep_for(minor_blink_delay); i++
SleepMinor ==
    /\ pc = "sleep_minor"
    /\ i' = i + 1
    /\ pc' = "for"
    /\ UNCHANGED <<led, counter, start0, out, toggles, sinceMark, svars>>

\* printf("Blinky count: %i\n", counter)
PrintCount ==
    /\ pc = "print"
    /\ out' = Append(out, counter)
    /\ sinceMark' = 0
    /\ pc' = "inc"
    /\ UNCHANGED <<led, i, counter, start0, toggles, svars>>

\* counter++
CounterInc ==
    /\ pc = "inc"
    /\ counter' \in Increment(counter)
    /\ pc' = "sleep_major"
    /\ UNCHANGED <<led, i, start0, out, toggles, sinceMark, svars>>

\* ThisThread::sleep_for(major_blink_delay)
SleepMajor ==
    /\ pc = "sleep_major"
    /\ pc' = "while"
    /\ UNCHANGED <<led, i, counter, start0, out, toggles, sinceMark, svars>>

NextBlink ==
    \/ PrintStart
    \/ WhileTop
    \/ ForTest
    \/ LedToggle
    \/ SleepMinor
    \/ PrintCount
    \/ CounterInc
    \/ SleepMajor

SpecBlink == InitBlink /\ [][NextBlink]_vars

(***************************************************************************)
(*                              Test Shim                                  *)
(***************************************************************************)
CaseNames == {"test_success_1", "test_success_2"}

\* values an assertion's actual operand is drawn from
Values == 0..MaxVal

\* GREENTEA_SETUP(40, "default_auto")
GREENTEA_TIMEOUT == 40
GREENTEA_PROFILE == "default_auto"

\* unity: TEST_ASSERT_EQUAL(expected, actual) passes iff the operands are equal
TEST_ASSERT_EQUAL(expected, actual) == expected = actual

\* The actual operands the bodies are built with (the literals of
\* TEST_ASSERT_EQUAL(0, 0) and TEST_ASSERT_EQUAL(1, 1)).  Any other value of
\* `observed` stands for a body whose assertion mismatches.
BuiltObserved == [c \in CaseNames |-> IF c = "test_success_1" THEN 0 ELSE 1]

\* static void test_success_1(): TRUE iff the body's assertion passes
test_success_1(actual) == TEST_ASSERT_EQUAL(0, actual)

\* static void test_success_2()
test_success_2_off(actual) == TEST_ASSERT_EQUAL(0, actual)
test_success_2(actual) == TEST_ASSERT_EQUAL(1, actual)

\* the reporting interface of the greentea client
greentea_test_setup_handler(number_of_cases) ==
    [kind |-> "suite_started", name |-> "", passed |-> 0, failed |-> 0,
     failure |-> "REASON_NONE", n |-> number_of_cases]
greentea_case_setup_handler(source, index_of_case) ==
    [kind |-> "case_started", name |-> source, passed |-> 0, failed |-> 0,
     failure |-> "REASON_NONE", n |-> index_of_case]
greentea_case_teardown_handler(source, passed, failed, failure) ==
    [kind |-> "case_finished", name |-> source, passed |-> passed,
     failed |-> failed, failure |-> failure, n |-> 0]
greentea_test_teardown_handler(passed, failed, failure) ==
    [kind |-> "suite_finished", name |-> "", passed |-> passed,
     failed |-> failed, failure |-> failure, n |-> 0]
\* the status a failure handler answers with
greentea_case_failure_handler(handler) ==
    IF handler = "greentea_case_failure_continue_handler"
    THEN "STATUS_CONTINUE" ELSE "STATUS_ABORT"

\* the shim's four callbacks: each forwards its arguments to greentea
app_test_setup_handler(number_of_cases) ==
    greentea_test_setup_handler(number_of_cases)

app_case_setup_handler(source, index_of_case) ==
    greentea_case_setup_handler(source, index_of_case)

app_case_teardown_handler_swapped(source, passed, failed, failure) ==
    greentea_case_teardown_handler(source, failed, passed, failure)
app_case_teardown_handler(source, passed, failed, failure) ==
    greentea_case_teardown_handler(source, passed, failed, failure)

app_test_teardown_handler(passed, failed, failure) ==
    greentea_test_teardown_handler(passed, failed, failure)

\* #define SimpleCase(test_fun) Case(#test_fun, setup, test_fun, teardown, failure)
SimpleCaseAbort(test_fun) ==
    [name |-> test_fun, setup_handler |-> "app_case_setup_handler",
     handler |-> test_fun, teardown_handler |-> "app_case_teardown_handler",
     failure_handler |-> "greentea_case_failure_abort_handler"]
SimpleCase(test_fun) ==
    [name |-> test_fun, setup_handler |-> "app_case_setup_handler",
     handler |-> test_fun, teardown_handler |-> "app_case_teardown_handler",
     failure_handler |-> "greentea_case_failure_continue_handler"]

\* static Case cases[]
casesSwapped == <<SimpleCase("test_success_2"), SimpleCase("test_success_1")>>
casesTwice == <<SimpleCase("test_success_1"), SimpleCase("test_success_1"),
                SimpleCase("test_success_2")>>
cases == <<SimpleCase("test_success_1"), SimpleCase("test_success_2")>>

\* static Specification specification(setup, cases, teardown)
specification ==
    [setup_handler |-> "app_test_setup_handler", cases |-> cases,
     teardown_handler |-> "app_test_teardown_handler"]

\* the statements of the shim's main(), in order
main_body_swapped == <<"return !Harness::run", "GREENTEA_SETUP">>
main_body == <<"GREENTEA_SETUP", "return !Harness::run">>

\* the statement main() is at, "" once it has left main_body
Stmt == IF m_pc \in 1..Len(main_body) THEN main_body[m_pc] ELSE ""

\* return !x, as an int
ExitStatus(run_result) == IF run_result THEN 0 ELSE 1

\* the body of a case, called through its function pointer
RunBody(handler, actual) ==
    IF handler = "test_success_1" THEN test_success_1(actual)
    ELSE test_success_2(actual)

\* the harness calls a handler through the pointer the specification or the
\* case holds; a handler that is not the shim's is greentea's own
CallTestSetup(h, n) ==
    IF h = "app_test_setup_handler" THEN app_test_setup_handler(n)
    ELSE greentea_test_setup_handler(n)
CallCaseSetup(h, source, index) ==
    IF h = "app_case_setup_handler" THEN app_case_setup_handler(source, index)
    ELSE greentea_case_setup_handler(source, index)
CallCaseTeardown(h, source, passed, failed, failure) ==
    IF h = "app_case_teardown_handler"
    THEN app_case_teardown_handler(source, passed, failed, failure)
    ELSE greentea_case_teardown_handler(source, passed, failed, failure)
CallTestTeardown(h, passed, failed, failure) ==
    IF h = "app_test_teardown_handler"
    THEN app_test_teardown_handler(passed, failed, failure)
    ELSE greentea_test_teardown_handler(passed, failed, failure)

\* the harness's view of the case table
test_cases == specification.cases

Event(ev, name) == [ev |-> ev, case |-> name]

BlinkIdle ==
    /\ pc = "off"
    /\ led = LedInit
    /\ i = 0
    /\ counter = 0
    /\ start0 = 0
    /\ out = <<>>
    /\ toggles = 0
    /\ sinceMark = 0

InitShim ==
    /\ m_pc = 1
    /\ handshake = "none"
    /\ observed \in [CaseNames -> Values]
    /\ phase = "NotStarted"
    /\ case_index = 0
    /\ case_failed = FALSE
    /\ aborting = FALSE
    /\ test_passed = 0
    /\ test_failed = 0
    /\ exit_status = -1
    /\ log = <<>>
    /\ host = <<>>
    /\ BlinkIdle

\* GREENTEA_SETUP(40, "default_auto") completes: the host answered
GreenteaSetupOk ==
    /\ Stmt = "GREENTEA_SETUP"
    /\ handshake = "none"
    /\ handshake' = "ok"
    /\ host' = Append(host, [kind |-> "sync", name |-> GREENTEA_PROFILE,
                             passed |-> 0, failed |-> 0,
                             failure |-> "REASON_NONE", n |-> GREENTEA_TIMEOUT])
    /\ m_pc' = m_pc + 1
    /\ UNCHANGED <<observed, phase, case_index, case_failed, aborting,
                   test_passed, test_failed, exit_status, log, bvars>>

\* GREENTEA_SETUP fails: main() does not go on
GreenteaSetupFail ==
    /\ Stmt = "GREENTEA_SETUP"
    /\ handshake = "none"
    /\ handshake' = "failed"
    /\ m_pc' = 0
    /\ UNCHANGED <<observed, phase, case_index, case_failed, aborting,
                   test_passed, test_failed, exit_status, log, host, bvars>>

\* Harness::run(specification) is entered
HarnessRun ==
    /\ Stmt = "return !Harness::run"
    /\ phase = "NotStarted"
    /\ phase' = "SuiteSetup"
    /\ UNCHANGED <<m_pc, handshake, observed, case_index, case_failed, aborting,
                   test_passed, test_failed, exit_status, log, host, bvars>>

\* the harness calls the suite setup handler with the number of cases
SuiteSetup ==
    /\ phase = "SuiteSetup"
    /\ log' = Append(log, Event("suite_setup", ""))
    /\ host' = Append(host, CallTestSetup(specification.setup_handler, Len(test_cases)))
    /\ case_index' = 1
    /\ phase' = IF Len(test_cases) = 0 THEN "SuiteTeardown" ELSE "CaseSetup"
    /\ UNCHANGED <<m_pc, handshake, observed, case_failed, aborting,
                   test_passed, test_failed, exit_status, bvars>>

\* the harness calls the current case's setup handler
CaseSetup ==
    /\ phase = "CaseSetup"
    /\ log' = Append(log, Event("case_setup", test_cases[case_index].name))
    /\ host' = Append(host, CallCaseSetup(test_cases[case_index].setup_handler,
                             test_cases[case_index].name, case_index - 1))
    /\ case_failed' = FALSE
    /\ phase' = "CaseBody"
    /\ UNCHANGED <<m_pc, handshake, observed, case_index, aborting,
                   test_passed, test_failed, exit_status, bvars>>

\* the harness calls the current case's body; a failed assertion is caught
\* and the case's failure handler decides whether the suite goes on
CaseBody ==
    /\ phase = "CaseBody"
    /\ LET c == test_cases[case_index]
           ok == RunBody(c.handler, observed[c.name])
       IN /\ log' = Append(log, Event("case_body", c.name))
          /\ case_failed' = ~ok
          /\ aborting' = (~ok /\ greentea_case_failure_handler(c.failure_handler)
                                   = "STATUS_ABORT")
    /\ phase' = "CaseTeardown"
    /\ UNCHANGED <<m_pc, handshake, observed, case_index,
                   test_passed, test_failed, exit_status, host, bvars>>

\* the harness calls the current case's teardown handler with its outcome,
\* counts the case and moves to the next one
CaseTeardown ==
    /\ phase = "CaseTeardown"
    /\ LET c == test_cases[case_index]
       IN /\ log' = Append(log, Event("case_teardown", c.name))
          /\ host' = Append(host, CallCaseTeardown(c.teardown_handler, c.name,
                         IF case_failed THEN 0 ELSE 1,
                         IF case_failed THEN 1 ELSE 0,
                         IF case_failed THEN "REASON_ASSERTION" ELSE "REASON_NONE"))
    /\ test_passed' = test_passed + (IF case_failed THEN 0 ELSE 1)
    /\ test_failed' = test_failed + (IF case_failed THEN 1 ELSE 0)
    /\ IF aborting \/ case_index = Len(test_cases)
       THEN phase' = "SuiteTeardown" /\ case_index' = case_index
       ELSE phase' = "CaseSetup" /\ case_index' = case_index + 1
    /\ UNCHANGED <<m_pc, handshake, observed, case_failed, aborting,
                   exit_status, bvars>>

\* the harness calls the suite teardown handler with the aggregate outcome
SuiteTeardown ==
    /\ phase = "SuiteTeardown"
    /\ log' = Append(log, Event("suite_teardown", ""))
    /\ host' = Append(host, CallTestTeardown(specification.teardown_handler,
                         test_passed, test_failed,
                         IF test_failed > 0 THEN "REASON_CASES" ELSE "REASON_NONE"))
    /\ phase' = "Done"
    /\ UNCHANGED <<m_pc, handshake, observed, case_index, case_failed, aborting,
                   test_passed, test_failed, exit_status, bvars>>

\* Harness::run returns a bool, which main() negates and returns.  The value
\* is the library's: the shim fixes only how it becomes the exit status.
MainReturn ==
    /\ Stmt = "return !Harness::run"
    /\ phase = "Done"
    /\ \E run_result \in BOOLEAN : exit_status' = ExitStatus(run_result)
    /\ m_pc' = 0
    /\ UNCHANGED <<handshake, observed, phase, case_index, case_failed, aborting,
                   test_passed, test_failed, log, host, bvars>>

HarnessStep ==
    \/ SuiteSetup
    \/ CaseSetup
    \/ CaseBody
    \/ CaseTeardown
    \/ SuiteTeardown

NextShim ==
    \/ GreenteaSetupOk
    \/ GreenteaSetupFail
    \/ HarnessRun
    \/ SuiteSetup
    \/ CaseSetup
    \/ CaseBody
    \/ CaseTeardown
    \/ SuiteTeardown
    \/ MainReturn

SpecShim == InitShim /\ [][NextShim]_vars

\* the harness runs the callbacks one after the other without waiting for
\* anything: a started run is not left unfinished
FairSpecShim == SpecShim /\ WF_vars(HarnessStep)

(***************************************************************************)
(*                       Blink Loop: properties                            *)
(***************************************************************************)
\* C2: the pin is toggled exactly minor_blink_number times before each
\* 'Blinky count' line, counted from the previous line printed ('<start>' or
\* the previous 'Blinky count'), and not at all from a 'Blinky count' line
\* to the end of the long pause that follows it.
C2_TogglesPerBurst ==
    /\ pc = "print" => sinceMark = minor_blink_number
    /\ pc \in {"inc", "sleep_major", "while"} => sinceMark = 0
    /\ sinceMark <= minor_blink_number

\* a second or later 'Blinky count' line is about to be printed after a burst
C2_Witness ==
    /\ pc = "print"
    /\ Len(out) >= 1
    /\ sinceMark = minor_blink_number

\* C3: the printed values start at 0 and each printed value is the previous
\* printed value plus 1, in every outer cycle of an unbounded run.
C3_PrintedPlusOne ==
    /\ (start0 = 0 /\ Len(out) >= 1) => out[1] = 0
    /\ \A j \in 2..Len(out) : out[j - 1] < INT_MAX /\ out[j] = out[j - 1] + 1

\* C10: when value k is about to be printed, and through the long pause, the
\* pin is at its initial level, and the total number of toggles since the
\* program started, 8 * start0 + toggles, is 8 * (k + 1).
C10_LevelAndTotal ==
    /\ pc \in {"print", "inc", "sleep_major"} => led = LedInit
    /\ pc = "print" =>
          /\ counter >= start0
          /\ toggles = 8 * ((counter - start0) + 1)

\* the part of C10 about the pin level alone
PinLevelAtPrint == pc \in {"print", "inc", "sleep_major"} => led = LedInit

(***************************************************************************)
(*                        Test Shim: properties                            *)
(***************************************************************************)
\* the callbacks of cases executed so far, in order
CaseLog == SelectSeq(log, LAMBDA e : e.case # "")

\* the log of a run that executes test_success_1 and then test_success_2,
\* each as setup, body, teardown
DeclaredLog ==
    <<Event("case_setup", "test_success_1"), Event("case_body", "test_success_1"),
      Event("case_teardown", "test_success_1"),
      Event("case_setup", "test_success_2"), Event("case_body", "test_success_2"),
      Event("case_teardown", "test_success_2")>>

IsPrefix(s, t) == Len(s) <= Len(t) /\ SubSeq(t, 1, Len(s)) = s

Count(seq, P(_)) == Cardinality({k \in 1..Len(seq) : P(seq[k])})

\* the cases whose body's assertion mismatches
FailingBodies == {c \in CaseNames : observed[c] # BuiltObserved[c]}

HostOf(kind) == SelectSeq(host, LAMBDA r : r.kind = kind)

\* C4: the case table is test_success_1, test_success_2 in every state, and
\* the case callbacks executed so far are a prefix of: setup, body, teardown
\* of test_success_1, then setup, body, teardown of test_success_2; the
\* whole of it once the suite teardown has run.
C4_DeclarationOrder ==
    /\ [k \in 1..Len(test_cases) |-> test_cases[k].name]
          = <<"test_success_1", "test_success_2">>
    /\ IsPrefix(CaseLog, DeclaredLog)
    /\ phase = "Done" => CaseLog = DeclaredLog

\* test_success_1 has finished and test_success_2's setup has run
C4_Witness ==
    /\ Len(CaseLog) = 4
    /\ CaseLog[3] = Event("case_teardown", "test_success_1")
    /\ CaseLog[4] = Event("case_setup", "test_success_2")

\* C5: whatever bodies fail, once the suite teardown has been called every
\* case's body has been executed, and the failed count it was given is the
\* number of cases whose body failed.
C5_ContinueOnFailure ==
    \A k \in 1..Len(host) :
        host[k].kind = "suite_finished" =>
            /\ host[k].failed = Cardinality(FailingBodies)
            /\ \A c \in CaseNames :
                  Count(log, LAMBDA e : e = Event("case_body", c)) = 1

\* the first case's body failed and the suite has been torn down
C5_Witness ==
    /\ "test_success_1" \in FailingBodies
    /\ phase = "Done"
    /\ Len(HostOf("suite_finished")) = 1

\* C6: every body is preceded directly by its case's setup and followed
\* directly by its case's teardown, a setup is followed by nothing but its
\* body and a teardown preceded by nothing but its body, whether the body
\* passed or failed; and the j-th teardown hands the host-reporting layer
\* that case's name, passed/failed counts and failure reason.
C6_SetupBodyTeardown ==
    /\ \A k \in 1..Len(log) :
          /\ log[k].ev = "case_body" =>
                /\ k > 1 /\ log[k - 1] = Event("case_setup", log[k].case)
                /\ IF k < Len(log)
                   THEN log[k + 1] = Event("case_teardown", log[k].case)
                   ELSE phase = "CaseTeardown"
          /\ log[k].ev = "case_setup" =>
                IF k < Len(log)
                THEN log[k + 1] = Event("case_body", log[k].case)
                ELSE phase = "CaseBody"
          /\ log[k].ev = "case_teardown" =>
                k > 1 /\ log[k - 1] = Event("case_body", log[k].case)
    /\ LET downs == SelectSeq(log, LAMBDA e : e.ev = "case_teardown")
           sent == HostOf("case_finished")
       IN /\ Len(sent) = Len(downs)
          /\ \A j \in 1..Len(sent) :
                /\ sent[j].name = downs[j].case
                /\ IF sent[j].name \in FailingBodies
                   THEN /\ sent[j].passed = 0
                        /\ sent[j].failed = 1
                        /\ sent[j].failure = "REASON_ASSERTION"
                   ELSE /\ sent[j].passed = 1
                        /\ sent[j].failed = 0
                        /\ sent[j].failure = "REASON_NONE"

\* a teardown has run after a body that failed, and one after a body that passed
C6_Witness ==
    /\ \E k \in 1..Len(host) : host[k].kind = "case_finished" /\ host[k].failed = 1
    /\ \E k \in 1..Len(host) : host[k].kind = "case_finished" /\ host[k].passed = 1

\* C7: with the bodies as built, the suite teardown is given passed = 2 and
\* failed = 0, and it has been given them once the run is done.
C7_TwoPassed ==
    observed = BuiltObserved =>
        /\ \A k \in 1..Len(host) :
              host[k].kind = "suite_finished" =>
                  host[k].passed = 2 /\ host[k].failed = 0
        /\ phase = "Done" => Len(HostOf("suite_finished")) = 1

\* the suite as built has run to the end
C7_Witness ==
    /\ observed = BuiltObserved
    /\ phase = "Done"
    /\ Len(HostOf("suite_finished")) = 1

\* the successors of each lifecycle state
LifecycleNext(p) ==
    CASE p = "NotStarted" -> {"SuiteSetup"}
      [] p = "SuiteSetup" -> {"CaseSetup"}
      [] p = "CaseSetup" -> {"CaseBody"}
      [] p = "CaseBody" -> {"CaseTeardown"}
      [] p = "CaseTeardown" -> {"CaseSetup", "SuiteTeardown"}
      [] p = "SuiteTeardown" -> {"Done"}
      [] OTHER -> {}

\* what has run so far fits the lifecycle: the suite setup is first and runs
\* at most once, the suite teardown is last and runs at most once, no callback
\* of a case runs twice; at Done each has run exactly once
LifecycleInv ==
    /\ Count(log, LAMBDA e : e.ev = "suite_setup") <= 1
    /\ Count(log, LAMBDA e : e.ev = "suite_teardown") <= 1
    /\ log # <<>> => log[1] = Event("suite_setup", "")
    /\ \A k \in 1..Len(log) : log[k].ev = "suite_teardown" => k = Len(log)
    /\ \A c \in CaseNames : \A ev \in {"case_setup", "case_body", "case_teardown"} :
          /\ Count(log, LAMBDA e : e = Event(ev, c)) <= 1
          /\ phase = "Done" => Count(log, LAMBDA e : e = Event(ev, c)) = 1
    /\ phase = "Done" =>
          /\ Count(log, LAMBDA e : e.ev = "suite_setup") = 1
          /\ Count(log, LAMBDA e : e.ev = "suite_teardown") = 1

\* C8: the run moves only along NotStarted -> SuiteSetup -> (CaseSetup ->
\* CaseBody -> CaseTeardown)* -> SuiteTeardown -> Done; the suite setup runs
\* once and first, the suite teardown once and last, each case's callbacks
\* once; and a run that has started reaches Done.
C8_Lifecycle ==
    /\ []LifecycleInv
    /\ [][phase' # phase => phase' \in LifecycleNext(phase)]_vars
    /\ (phase = "SuiteSetup") ~> (phase = "Done")

\* a run has gone through both cases and is done
C8_Witness ==
    /\ phase = "Done"
    /\ Len(log) = 2 + 3 * Cardinality(CaseNames)

\* C9: the handshake is made at most once, with timeout 40 and profile
\* "default_auto"; whenever the harness has been entered or a callback has
\* run, the handshake had completed and is the first message to the host;
\* after a failed handshake the harness is not entered and nothing runs.
C9_HandshakeFirst ==
    /\ Len(HostOf("sync")) <= 1
    /\ \A k \in 1..Len(host) :
          host[k].kind = "sync" =>
              k = 1 /\ host[k].n = 40 /\ host[k].name = "default_auto"
    /\ (phase # "NotStarted" \/ log # <<>>) =>
          /\ handshake = "ok"
          /\ host # <<>> /\ host[1].kind = "sync"
    /\ handshake = "failed" =>
          /\ phase = "NotStarted"
          /\ log = <<>>
          /\ host = <<>>
          /\ ~ENABLED NextShim

\* the handshake completed and a case body is running
C9_Witness ==
    /\ handshake = "ok"
    /\ phase = "CaseBody"
    /\ Len(HostOf("sync")) = 1

\* what main() fixes about the exit status: it is 0 or 1 once main() has
\* returned from a finished run, and unset before
ExitStatusSet ==
    /\ exit_status \in {-1, 0, 1}
    /\ exit_status # -1 => phase = "Done" /\ m_pc = 0

====
